---- MODULE Spec2Model ----
(***************************************************************************)
(* Model of atomai/predictors/epredictor.py (EnsemblePredictor) and of     *)
(* atomai/utils/nn.py (average_weights, combine_classes, renumerate_...).  *)
(*                                                                         *)
(* Python objects that are mutated in place or compared by identity live   *)
(* in `heap` (a sequence; an object's id is its index).  A dict is a       *)
(* sequence of <<key, value>> pairs in insertion order.  A call that       *)
(* raises leaves the name of the exception in `raised`.                    *)
(*                                                                         *)
(* Numbers are exact: a weight or a prediction is a fraction in lowest     *)
(* terms, so means and variances are compared without rounding.  Tensors   *)
(* are floating-point weights; class labels are integral, and the          *)
(* dtype=np.float conversion of renumerate_classes_ keeps their values.    *)
(*                                                                         *)
(* Four specifications: SpecInit constructs a predictor; Spec calls one    *)
(* method of a predictor; SpecPredict is a sequence of ensemble_predict    *)
(* calls; SpecWeights and SpecClasses call the functions of nn.py.         *)
(***************************************************************************)
EXTENDS Integers, Sequences, FiniteSets, TLC

VARIABLES heap, ensemble, coord_class_dict, self, ret

vars == <<heap, ensemble, coord_class_dict, self, ret>>

None == "None"

NoCall == [op |-> "none"]

Range(s) == {s[i] : i \in 1..Len(s)}

\* ------------------------------------------------------------------ bounds

\* largest class label of a coordinate/class array
MaxLabel == 3

\* largest number of rows of a coordinate/class array
MaxRows == 2

\* largest length of a flat class array handed to renumerate_classes_
MaxClasses == 3

\* ------------------------------------------------------------------ dicts

DictKeys(d) == [i \in 1..Len(d) |-> d[i][1]]

DictValues(d) == [i \in 1..Len(d) |-> d[i][2]]

DictHas(d, k) == \E i \in 1..Len(d) : d[i][1] = k

DictGet(d, k) == d[CHOOSE i \in 1..Len(d) : d[i][1] = k][2]

DictSet(d, k, v) ==
    IF DictHas(d, k)
    THEN [i \in 1..Len(d) |-> IF d[i][1] = k THEN <<k, v>> ELSE d[i]]
    ELSE Append(d, <<k, v>>)

\* v, evaluated once, handed to what follows it
Then(v, K(_)) == CHOOSE r \in {K(x) : x \in {v}} : TRUE

\* all sequences over S of length at most n
RECURSIVE SeqsUpTo(_, _)
SeqsUpTo(S, n) ==
    IF n = 0 THEN {<<>>}
    ELSE LET shorter == SeqsUpTo(S, n - 1)
         IN  shorter \cup {Append(s, x) : s \in {t \in shorter : Len(t) = n - 1}, x \in S}

\* ------------------------------------------------------------- rationals

\* tensor elements and predictions are exact fractions n/d, d > 0, in lowest terms
Abs(x) == IF x < 0 THEN -x ELSE x

RECURSIVE Gcd(_, _)
Gcd(a, b) == IF b = 0 THEN a ELSE Gcd(b, a % b)

Rat(n, d) == LET g == Gcd(Abs(n), d) IN [n |-> n \div g, d |-> d \div g]

RInt(k) == [n |-> k, d |-> 1]

RAdd(p, q) == Rat(p.n * q.d + q.n * p.d, p.d * q.d)

RSub(p, q) == Rat(p.n * q.d - q.n * p.d, p.d * q.d)

RMul(p, q) == Rat(p.n * q.n, p.d * q.d)

RDivInt(p, k) == Rat(p.n, p.d * k)

\* ------------------------------------------- nn.py: average_weights

\* sum(w_aver): 0 + w_aver[0] + w_aver[1] + ..., elementwise
RECURSIVE TensorSum(_, _)
TensorSum(w_aver, k) ==
    IF k = 1 THEN w_aver[1]
    ELSE LET s == TensorSum(w_aver, k - 1)
         IN  [j \in 1..Len(s) |-> RAdd(s[j], w_aver[k][j])]

\* the division by float(len(w_aver)) left out
TensorSumOnly(w_aver) == TensorSum(w_aver, Len(w_aver))

\* sum(w_aver) / float(len(w_aver))
TensorMean(w_aver) ==
    LET s == TensorSum(w_aver, Len(w_aver))
    IN  [j \in 1..Len(s) |-> RDivInt(s[j], Len(w_aver))]

\* the p of every (n, p) in model.items() with n == name, for every model
\* of ensemble.values(), in that order
RECURSIVE Collect(_, _, _, _)
Collect(h, models, name, k) ==
    IF k > Len(models) THEN <<>>
    ELSE LET sd == h[models[k]].sd
             own == IF DictHas(sd, name) THEN <<DictGet(sd, name)>> ELSE <<>>
         IN  own \o Collect(h, models, name, k + 1)

RECURSIVE ForNames(_, _, _, _, _)
ForNames(h, ens, id0, names, k) ==
    IF k > Len(names) THEN h
    ELSE LET w_aver == Collect(h, DictValues(ens), names[k], 1)
             h1 == [h EXCEPT ![id0] = [sd |-> DictSet(@.sd, names[k], TensorMean(w_aver))]]
         IN  ForNames(h1, ens, id0, names, k + 1)

average_weights(h, ens) ==
    IF ~DictHas(ens, 0) THEN [raised |-> "KeyError", heap |-> h, value |-> None]
    ELSE LET ensemble_state_dict == DictGet(ens, 0)
             names == DictKeys(h[ensemble_state_dict].sd)
         IN  [raised |-> "none",
              heap |-> ForNames(h, ens, ensemble_state_dict, names, 1),
              value |-> ensemble_state_dict]

\* ------------------------------------------------- average_weights calls

\* largest value of a weight
MaxWeight == 1

\* the integer keys of the ensembles tried, in insertion order
EnsembleKeys == {<<0>>, <<1>>, <<0, 1>>, <<1, 0>>, <<0, 2>>, <<2, 0, 1>>}

Weights == 0..MaxWeight

\* a snapshot: parameter "w" with two elements and "b" with one
Snapshots ==
    {[sd |-> << <<"w", <<RInt(a), RInt(b)>> >>, <<"b", <<RInt(c)>> >> >>] :
        a \in Weights, b \in Weights, c \in Weights}

InitWeights ==
    /\ \E keys \in EnsembleKeys : \E snaps \in [1..Len(keys) -> Snapshots] :
          /\ heap = [i \in 1..Len(keys) |-> snaps[i]]
          /\ ensemble = [i \in 1..Len(keys) |-> <<keys[i], i>>]
    /\ coord_class_dict = None
    /\ self = None
    /\ ret = NoCall

AverageWeights ==
    /\ ret.op = "none"
    /\ LET r == average_weights(heap, ensemble)
       IN  /\ heap' = r.heap
           /\ ret' = [op |-> "average_weights", before |-> heap,
                      raised |-> r.raised, value |-> r.value]
    /\ UNCHANGED <<ensemble, coord_class_dict, self>>

NextWeights == AverageWeights

SpecWeights == InitWeights /\ [][NextWeights]_vars

\* ---------------------------------------------------------------- claim C6

\* the sum over the ensemble of element j of parameter name, before the call
RECURSIVE SumBefore(_, _, _)
SumBefore(name, j, k) ==
    IF k = 0 THEN 0
    ELSE DictGet(ret.before[ensemble[k][2]].sd, name)[j].n + SumBefore(name, j, k - 1)

\* C6: for a non-empty ensemble of structurally identical snapshots that
\* contains index 0, average_weights returns the object stored at
\* ensemble[0]; afterwards each of its parameters holds the elementwise mean
\* of the pre-call values across all snapshots, index 0's included, and
\* every other snapshot is unchanged.
C6_AverageInPlace ==
    (ret.op = "average_weights" /\ DictHas(ensemble, 0)) =>
        LET id0 == DictGet(ensemble, 0)
        IN  /\ ret.raised = "none"
            /\ ret.value = id0
            /\ Len(heap) = Len(ret.before)
            /\ DictKeys(heap[id0].sd) = DictKeys(ret.before[id0].sd)
            /\ \A p \in 1..Len(heap[id0].sd) :
                  LET name == heap[id0].sd[p][1]
                      t == heap[id0].sd[p][2]
                  IN  /\ Len(t) = Len(ret.before[id0].sd[p][2])
                      /\ \A j \in 1..Len(t) :
                            t[j].n * Len(ensemble) = t[j].d * SumBefore(name, j, Len(ensemble))
            /\ \A id \in 1..Len(heap) : id # id0 => heap[id] = ret.before[id]

\* three snapshots, index 0 not first, whose mean is none of them
C6_Witness ==
    /\ ret.op = "average_weights"
    /\ Len(ensemble) = 3
    /\ ensemble[1][1] # 0
    /\ ret.value = DictGet(ensemble, 0)
    /\ DictGet(heap[ret.value].sd, "w")[1] = [n |-> 1, d |-> 3]

\* ------------------------------------------------- nn.py: class utilities

\* a coordinate/class array: rows of <<coordinate, class>>
LastCol(rows) == [r \in 1..Len(rows) |-> rows[r][Len(rows[r])]]

SetLastCol(rows, col) ==
    [r \in 1..Len(rows) |-> [rows[r] EXCEPT ![Len(rows[r])] = col[r]]]

RECURSIVE SortSet(_)
SortSet(S) ==
    IF S = {} THEN <<>>
    ELSE LET m == CHOOSE x \in S : \A y \in S : x <= y
         IN  <<m>> \o SortSet(S \ {m})

np_unique(a) == SortSet(Range(a))

\* classes_all[classes_all == c] = cls_min
MaskAssign(classes_all, c, v) ==
    [i \in 1..Len(classes_all) |-> IF classes_all[i] = c THEN v ELSE classes_all[i]]

SeqMin(s) == CHOOSE x \in Range(s) : \A y \in Range(s) : x <= y

RECURSIVE CombineGroup(_, _, _, _)
CombineGroup(classes_all, comb, cls_min, k) ==
    IF k > Len(comb) THEN classes_all
    ELSE CombineGroup(MaskAssign(classes_all, comb[k], cls_min), comb, cls_min, k + 1)

RECURSIVE CombineFrom(_, _, _)
CombineFrom(classes_all, classes_to_combine, g) ==
    IF g > Len(classes_to_combine) THEN classes_all
    ELSE LET comb == classes_to_combine[g]
         IN  CombineFrom(CombineGroup(classes_all, comb, SeqMin(comb), 1),
                         classes_to_combine, g + 1)

combine_classes_(classes_all, classes_to_combine) ==
    CombineFrom(classes_all, classes_to_combine, 1)

\* the shift of the 0-based ranks: arange starts one too high
renumerate_classes_shifted(classes, start_from_1) ==
    LET u == np_unique(classes)
        diff == [j \in 1..Len(u) |-> u[j] - j]
        diff_d == [cl \in Range(u) |-> diff[CHOOSE j \in 1..Len(u) : u[j] = cl]]
        classes_renum == [i \in 1..Len(classes) |-> classes[i] - diff_d[classes[i]]]
    IN  IF start_from_1
        THEN [i \in 1..Len(classes) |-> classes_renum[i] + 1]
        ELSE classes_renum

renumerate_classes_(classes, start_from_1) ==
    LET u == np_unique(classes)
        diff == [j \in 1..Len(u) |-> u[j] - (j - 1)]
        diff_d == [cl \in Range(u) |-> diff[CHOOSE j \in 1..Len(u) : u[j] = cl]]
        classes_renum == [i \in 1..Len(classes) |-> classes[i] - diff_d[classes[i]]]
    IN  IF start_from_1
        THEN [i \in 1..Len(classes) |-> classes_renum[i] + 1]
        ELSE classes_renum

\* copy.deepcopy of a dict of arrays: every array and the dict are new objects
RECURSIVE CopyItems(_, _, _, _)
CopyItems(h, items, k, acc) ==
    IF k > Len(items) THEN [heap |-> h, items |-> acc]
    ELSE CopyItems(Append(h, h[items[k][2]]), items, k + 1,
                   Append(acc, <<items[k][1], Len(h) + 1>>))

deepcopy(h, d) ==
    LET c == CopyItems(h, h[d].items, 1, <<>>)
    IN  [heap |-> Append(c.heap, [items |-> c.items]), value |-> Len(c.heap) + 1]

\* for i in range(len(..)): coord_class_dict_[i][:, -1] = f(coord_class_dict_[i][:, -1])
\* op is "combine" or "renumerate"; a missing key i raises KeyError
ColumnOp(op, col, classes_to_combine) ==
    IF op = "combine" THEN combine_classes_(col, classes_to_combine)
    ELSE renumerate_classes_(col, TRUE)

RECURSIVE ForRange(_, _, _, _, _, _)
ForRange(h, d_, n, i, op, classes_to_combine) ==
    IF i >= n THEN [raised |-> "none", heap |-> h]
    ELSE IF ~DictHas(h[d_].items, i) THEN [raised |-> "KeyError", heap |-> h]
    ELSE LET a == DictGet(h[d_].items, i)
             col == ColumnOp(op, LastCol(h[a].rows), classes_to_combine)
             h1 == [h EXCEPT ![a] = [rows |-> SetLastCol(h[a].rows, col)]]
         IN  ForRange(h1, d_, n, i + 1, op, classes_to_combine)

renumerate_classes(h, d, start_from_1) ==
    LET c == deepcopy(h, d)
        r == ForRange(c.heap, c.value, Len(h[d].items), 0, "renumerate", <<>>)
    IN  [raised |-> r.raised, heap |-> r.heap,
         value |-> IF r.raised = "none" THEN c.value ELSE None]

combine_classes(h, d, classes_to_combine, renumerate) ==
    LET c == deepcopy(h, d)
        r == ForRange(c.heap, c.value, Len(c.heap[c.value].items), 0,
                      "combine", classes_to_combine)
    IN  IF r.raised # "none" THEN [raised |-> r.raised, heap |-> r.heap, value |-> None]
        ELSE IF renumerate THEN renumerate_classes(r.heap, c.value, TRUE)
        ELSE [raised |-> "none", heap |-> r.heap, value |-> c.value]

\* ---------------------------------------------------- class-utility calls

Labels == 1..MaxLabel

\* image indices of the dictionaries tried: contiguous from 0, and not
ImageKeys == {<<>>, <<0>>, <<0, 1>>, <<1, 0>>, <<1>>, <<0, 2>>}

\* row r of an array has coordinate r and a class label
ArrayOf(col) == [rows |-> [r \in 1..Len(col) |-> <<r, col[r]>>]]

ClassColumns == SeqsUpTo(Labels, MaxRows)

\* classes_to_combine: no group, or one group of two labels
Groupings == {<<>>} \cup {<<(<<a, b>>)>> : a \in Labels, b \in Labels}

InitClasses ==
    /\ \E keys \in ImageKeys : \E cols \in [1..Len(keys) -> ClassColumns] :
          /\ heap = [i \in 1..Len(keys) |-> ArrayOf(cols[i])]
                      \o <<[items |-> [i \in 1..Len(keys) |-> <<keys[i], i>>]]>>
          /\ coord_class_dict = Len(keys) + 1
    /\ ensemble = <<>>
    /\ self = None
    /\ ret = NoCall

CombineClasses ==
    /\ ret.op = "none"
    /\ \E classes_to_combine \in Groupings, renumerate \in BOOLEAN :
          LET r == combine_classes(heap, coord_class_dict, classes_to_combine, renumerate)
          IN  /\ heap' = r.heap
              /\ ret' = [op |-> "combine_classes", before |-> heap,
                         classes_to_combine |-> classes_to_combine,
                         renumerate |-> renumerate,
                         raised |-> r.raised, value |-> r.value]
    /\ UNCHANGED <<ensemble, coord_class_dict, self>>

RenumerateClasses ==
    /\ ret.op = "none"
    /\ \E start_from_1 \in BOOLEAN :
          LET r == renumerate_classes(heap, coord_class_dict, start_from_1)
          IN  /\ heap' = r.heap
              /\ ret' = [op |-> "renumerate_classes", before |-> heap,
                         start_from_1 |-> start_from_1,
                         raised |-> r.raised, value |-> r.value]
    /\ UNCHANGED <<ensemble, coord_class_dict, self>>

RenumerateClasses_ ==
    /\ ret.op = "none"
    /\ \E classes \in SeqsUpTo(Labels, MaxClasses), start_from_1 \in BOOLEAN :
          ret' = [op |-> "renumerate_classes_", classes |-> classes,
                  start_from_1 |-> start_from_1, raised |-> "none",
                  value |-> renumerate_classes_(classes, start_from_1)]
    /\ UNCHANGED <<heap, ensemble, coord_class_dict, self>>

NextClasses == CombineClasses \/ RenumerateClasses \/ RenumerateClasses_

SpecClasses == InitClasses /\ [][NextClasses]_vars

\* ------------------------------------------------------------ claims C7, C8

\* C7: renumerate_classes_ maps every label to its 0-based rank among the
\* sorted distinct labels present, plus 1 when start_from_1: the output has
\* the input's length, equal labels stay equal, the order of labels is kept,
\* and the output labels are exactly 1..k (0..k-1), k the number of distinct
\* input labels.
C7_RenumerateRanks ==
    (ret.op = "renumerate_classes_") =>
        LET in == ret.classes
            out == ret.value
            base == IF ret.start_from_1 THEN 1 ELSE 0
            k == Cardinality(Range(in))
        IN  /\ ret.raised = "none"
            /\ Len(out) = Len(in)
            /\ \A i \in 1..Len(in) :
                  out[i] = base + Cardinality({x \in Range(in) : x < in[i]})
            /\ \A i, j \in 1..Len(in) :
                  /\ (in[i] = in[j]) <=> (out[i] = out[j])
                  /\ (in[i] < in[j]) => (out[i] < out[j])
            /\ Range(out) = base..(base + k - 1)

\* a call on labels with a gap, so that renumbering changes them
C7_Witness ==
    /\ ret.op = "renumerate_classes_"
    /\ ret.classes = <<1, 3, 3>>
    /\ ret.start_from_1
    /\ ret.value = <<1, 2, 2>>

IsDictCall == ret.op \in {"combine_classes", "renumerate_classes"}

\* the caller's dictionary and its arrays are as they were before the call
CallerUntouched ==
    \A id \in 1..Len(ret.before) : heap[id] = ret.before[id]

\* the call returned a new dictionary with the caller's keys whose entries
\* are new arrays that keep every coordinate column
ReturnedNewDict ==
    /\ ret.raised = "none"
    /\ ret.value > Len(ret.before)
    /\ LET old == heap[coord_class_dict].items
           new == heap[ret.value].items
       IN  /\ DictKeys(new) = DictKeys(old)
           /\ \A i \in 1..Len(old) :
                 /\ new[i][2] > Len(ret.before)
                 /\ Len(heap[new[i][2]].rows) = Len(heap[old[i][2]].rows)
                 /\ \A r \in 1..Len(heap[old[i][2]].rows) :
                       heap[new[i][2]].rows[r][1] = heap[old[i][2]].rows[r][1]

\* C8: combine_classes and renumerate_classes, for every dictionary keyed by
\* integer image indices (contiguous 0..n-1 or not), never mutate the
\* caller's dictionary or its arrays and return a new dictionary with the
\* same keys, the class column transformed and the coordinates kept.
C8_NewDictForAnyKeys ==
    IsDictCall => (CallerUntouched /\ ReturnedNewDict)

\* --------------------------------------------- epredictor.py: the predictor

\* an attribute that was never assigned
NoAttr == "no attribute"

\* None where a tuple is expected (in_dim, out_dim, output_shape): the code
\* tests these for truth only, and the empty tuple is as false as None
NoShape == <<>>

\* None where a number of classes is expected: `if self.nb_classes` takes
\* None and 0 alike
NoClasses == 0

\* a Python tuple and a Python int, told apart where the code passes either
Tuple(dims) == [kind |-> "tuple", dims |-> dims]

IntObj(k) == [kind |-> "int", val |-> k]

Raise(e) == [raised |-> e]

\* the builtin all(): one iterable argument, anything else is a TypeError
builtin_all(args) ==
    IF Len(args) # 1 THEN Raise("TypeError")
    ELSE [raised |-> "none", value |-> \A i \in 1..Len(args[1]) : args[1][i] # NoShape]

\* the builtin len(): one argument, anything else is a TypeError
builtin_len(args) ==
    IF Len(args) # 1 THEN Raise("TypeError")
    ELSE [raised |-> "none", value |-> IntObj(Len(args[1]))]

\* BasePredictor's initialisation step, called through super() on line 25:
\* an optional step of the base class that completes
base_super(a) == "none"

\* torch.nn.Module of the skeleton: its weights are whatever was loaded last
get_downsample_factor(model) == "downsample factor of the skeleton"

\* lines 47-50: self.everbose and self.verbose exist only for a truthy verbose
Everbose(verbose) == IF verbose # 0 THEN "True" ELSE NoAttr

Verbose(verbose) ==
    IF verbose = 0 THEN NoAttr ELSE IF verbose > 1 THEN "True" ELSE "False"

\* lines 33-50: the attributes __init__ assigns from its arguments
Attributes(a) ==
    [device |-> IF a.use_gpu /\ a.cuda_is_available
                THEN (IF a.device = None THEN "cuda" ELSE a.device)
                ELSE "cpu",
     model |-> a.skeleton,
     ensemble |-> a.ensemble,
     data_type |-> a.data_type,
     output_type |-> a.output_type,
     nb_classes |-> a.nb_classes,
     in_dim |-> a.in_dim,
     out_dim |-> a.out_dim,
     downsample_factor |-> None,
     output_shape |-> a.output_shape,
     everbose |-> Everbose(a.verbose),
     verbose |-> Verbose(a.verbose)]

CrossModal(data_type, output_type) ==
    <<data_type, output_type>> \in {<<"image", "spectra">>, <<"spectra", "image">>}

__init__(a) ==
    IF base_super(a) # "none" THEN Raise(base_super(a))
    ELSE IF a.output_type \notin {"image", "spectra"} THEN Raise("TypeError")
    ELSE LET inout_d == builtin_all(<<a.in_dim, a.out_dim>>)
         IN  IF inout_d.raised # "none" THEN Raise(inout_d.raised)
             ELSE IF CrossModal(a.data_type, a.output_type) /\ ~inout_d.value
                  THEN Raise("TypeError")
                  ELSE [raised |-> "none", self |-> Attributes(a)]

\* `not self.output_shape`
Falsy(shape) == shape = NoShape

\* Lines 60 and 69, out_shape = (*data.shape), are no Python expression (a
\* starred expression in parentheses needs a comma; the compiler rejects it
\* with SyntaxError): these two branches have no shape to assign.
_set_output_shape(s, data) ==
    IF s.data_type = "image" /\ s.output_type = "image"
    THEN IF s.nb_classes # NoClasses
         THEN [raised |-> "none", output_shape |-> data.shape \o <<s.nb_classes>>]
         ELSE Raise("SyntaxError")
    ELSE IF s.data_type = "spectra" /\ s.output_type = "image"
    THEN IF s.out_dim = NoShape THEN Raise("TypeError")
         ELSE IF s.nb_classes # NoClasses
         THEN [raised |-> "none",
               output_shape |-> <<data.shape[1]>> \o s.out_dim \o <<s.nb_classes>>]
         ELSE [raised |-> "none", output_shape |-> <<data.shape[1]>> \o s.out_dim]
    ELSE IF s.data_type = "image" /\ s.output_type = "spectra"
    THEN IF s.out_dim = NoShape THEN Raise("TypeError")
         ELSE [raised |-> "none", output_shape |-> <<data.shape[1]>> \o s.out_dim]
    ELSE IF s.data_type = "spectra" /\ s.output_type = "spectra"
    THEN Raise("SyntaxError")
    ELSE Raise("TypeError")

\* the samples of a preprocessed batch are named by their position, 1..n
preprocess_data(s, data) ==
    IF s.data_type = "image"
    THEN IF Len(data.shape) = 2 THEN <<1>> ELSE [j \in 1..data.shape[1] |-> j]
    ELSE IF s.data_type = "spectra"
    THEN IF Len(data.shape) = 1 THEN <<1>> ELSE [j \in 1..data.shape[1] |-> j]
    ELSE [j \in 1..data.shape[1] |-> j]

\* BasePredictor.preprocess, the hook ensemble_predict calls
preprocess(s, data) == preprocess_data(s, data)

\* BasePredictor.forward_: the prediction for sample x under weights w, one
\* output row per input sample
forward_(w, x) == RInt(w * x)

RECURSIVE RSum(_, _)
RSum(vals, k) == IF k = 0 THEN RInt(0) ELSE RAdd(RSum(vals, k - 1), vals[k])

np_mean(vals) == RDivInt(RSum(vals, Len(vals)), Len(vals))

SquaredDeviations(vals) ==
    LET m == np_mean(vals)
    IN  [i \in 1..Len(vals) |-> RMul(RSub(vals[i], m), RSub(vals[i], m))]

\* the unbiased estimator: divides by N - 1
np_var_sample(vals) ==
    IF Len(vals) = 1 THEN RInt(0)
    ELSE LET sq == SquaredDeviations(vals)
         IN  RDivInt(RSum(sq, Len(sq)), Len(vals) - 1)

np_var(vals) == np_mean(SquaredDeviations(vals))

\* data[a:b] of a sequence
Min(a, b) == IF a < b THEN a ELSE b

Slice(data, a, b) ==
    LET lo == Min(a, Len(data))
        hi == Min(b, Len(data))
    IN  IF hi <= lo THEN <<>> ELSE [j \in 1..(hi - lo) |-> data[lo + j]]

ensemble_forward_(s, data, out_shape) ==
    IF out_shape.kind # "tuple"
    THEN [raised |-> "TypeError", model |-> s.model, loads |-> <<>>, passes |-> <<>>]
    ELSE LET members == DictValues(s.ensemble)
             rows == out_shape.dims[1]
             \* eprediction[i][j], the i-th snapshot's prediction for row j
             eprediction(i, j) == forward_(members[i], data[IF Len(data) = 1 THEN 1 ELSE j])
             column(j) == [i \in 1..Len(members) |-> eprediction(i, j)]
         IN  IF Len(members) > 0 /\ Len(data) # rows /\ Len(data) # 1
             THEN [raised |-> "ValueError", model |-> members[1],
                   loads |-> <<members[1]>>, passes |-> <<(<<members[1], data>>)>>]
             ELSE [raised |-> "none",
                   model |-> IF Len(members) = 0 THEN s.model ELSE members[Len(members)],
                   loads |-> members,
                   passes |-> [i \in 1..Len(members) |-> <<members[i], data>>],
                   mean |-> [j \in 1..rows |-> np_mean(column(j))],
                   var |-> [j \in 1..rows |-> np_var(column(j))]]

\* target[a:b] = value: the slice is clipped to the array, the value must
\* have the slice's length or length 1
SliceAssign(target, a, b, value) ==
    LET lo == Min(a, Len(target))
        hi == IF Min(b, Len(target)) < lo THEN lo ELSE Min(b, Len(target))
    IN  IF Len(value) # hi - lo /\ Len(value) # 1 THEN Raise("ValueError")
        ELSE [raised |-> "none",
              array |-> [j \in 1..Len(target) |->
                            IF j > lo /\ j <= hi
                            THEN value[IF Len(value) = 1 THEN 1 ELSE j - lo]
                            ELSE target[j]],
              written |-> {j \in 1..Len(target) : j > lo /\ j <= hi}]

\* what ensemble_batch_predict has done so far
Progress(s) ==
    [model |-> s.model,
     mean |-> [j \in 1..s.output_shape[1] |-> RInt(0)],
     var |-> [j \in 1..s.output_shape[1] |-> RInt(0)],
     chunks |-> <<>>, wmean |-> <<>>, wvar |-> <<>>, printed |-> <<>>,
     raised |-> "none"]

Failed(e, acc) == [acc EXCEPT !.raised = e]

\* one chunk: ensemble_forward_ on it, then the two slice assignments
Chunk(s, acc, data_i, out_shape, a, b) ==
    Then(ensemble_forward_([s EXCEPT !.model = acc.model], data_i, out_shape), LAMBDA f :
        LET acc1 == [acc EXCEPT !.chunks = Append(@, data_i), !.model = f.model]
        IN  IF f.raised # "none" THEN Failed(f.raised, acc1)
            ELSE Then(SliceAssign(acc.mean, a, b, f.mean), LAMBDA wm :
                 IF wm.raised # "none" THEN Failed(wm.raised, acc1)
                 ELSE Then(SliceAssign(acc.var, a, b, f.var), LAMBDA wv :
                      LET acc2 == [acc1 EXCEPT !.mean = wm.array,
                                               !.wmean = Append(@, wm.written)]
                      IN  IF wv.raised # "none" THEN Failed(wv.raised, acc2)
                          ELSE [acc2 EXCEPT !.var = wv.array,
                                            !.wvar = Append(@, wv.written)])))

RECURSIVE ForBatches(_, _, _, _, _, _)
ForBatches(s, data, num_batches, batch_size, i, acc) ==
    IF i >= num_batches THEN acc
    ELSE IF s.everbose = NoAttr THEN Failed("AttributeError", acc)
    ELSE Then(Chunk(s, [acc EXCEPT !.printed = Append(@, <<i + 1, num_batches>>)],
                    Slice(data, i * batch_size, (i + 1) * batch_size),
                    Tuple(<<batch_size>> \o Tail(s.output_shape)),
                    i * batch_size, (i + 1) * batch_size),
              LAMBDA acc1 :
                  IF acc1.raised # "none" THEN acc1
                  ELSE ForBatches(s, data, num_batches, batch_size, i + 1, acc1))

\* lines 128-133: the chunk after the last equal one
Remainder(s, data, start, acc) ==
    LET data_i == Slice(data, start, Len(data))
    IN  IF Len(data_i) = 0 THEN acc
        ELSE LET out_shape == builtin_len(<<data_i>> \o Tail(s.output_shape))
             IN  IF out_shape.raised # "none" THEN Failed(out_shape.raised, acc)
                 ELSE Chunk(s, acc, data_i, out_shape.value, start,
                            IF Len(acc.mean) > start THEN Len(acc.mean) ELSE start)

ensemble_batch_predict(s, data, num_batches) ==
    LET floor == Len(data) \div num_batches
        batch_size == IF floor < 1 THEN 1 ELSE floor
        batches == IF floor < 1 THEN 1 ELSE num_batches
    IN  Then(ForBatches(s, data, batches, batch_size, 0, Progress(s)), LAMBDA looped :
            IF looped.raised # "none" THEN looped
            ELSE Remainder(s, data, batches * batch_size, looped))

\* _set_output_shape is called whether or not output_shape is set
ensemble_predict_always_sets(s, data, num_batches) ==
    LET unset == TRUE
        failed(e) == [raised |-> e, self |-> s, ran_set |-> TRUE, set_done |-> FALSE,
                      sized |-> FALSE, samples |-> 0, mean |-> <<>>, var |-> <<>>]
    IN  Then(IF unset THEN _set_output_shape(s, data)
             ELSE [raised |-> "none", output_shape |-> s.output_shape], LAMBDA shape :
        IF shape.raised # "none" THEN failed(shape.raised)
        ELSE Then([s EXCEPT !.output_shape = shape.output_shape], LAMBDA s1 :
             Then(preprocess(s1, data), LAMBDA x :
             Then(IF s1.data_type = "image" /\ s1.output_type = "image"
                     /\ s1.downsample_factor = None
                  THEN [s1 EXCEPT !.downsample_factor = get_downsample_factor(s1.model)]
                  ELSE s1, LAMBDA s2 :
             Then(ensemble_batch_predict(s2, x, num_batches), LAMBDA p :
                  [raised |-> p.raised, self |-> [s2 EXCEPT !.model = p.model],
                   ran_set |-> unset, set_done |-> unset, sized |-> TRUE,
                   samples |-> Len(x), mean |-> p.mean, var |-> p.var])))))

ensemble_predict(s, data, num_batches) ==
    LET unset == Falsy(s.output_shape)
        failed(e) == [raised |-> e, self |-> s, ran_set |-> TRUE, set_done |-> FALSE,
                      sized |-> FALSE, samples |-> 0, mean |-> <<>>, var |-> <<>>]
    IN  Then(IF unset THEN _set_output_shape(s, data)
             ELSE [raised |-> "none", output_shape |-> s.output_shape], LAMBDA shape :
        IF shape.raised # "none" THEN failed(shape.raised)
        ELSE Then([s EXCEPT !.output_shape = shape.output_shape], LAMBDA s1 :
             Then(preprocess(s1, data), LAMBDA x :
             Then(IF s1.data_type = "image" /\ s1.output_type = "image"
                     /\ s1.downsample_factor = None
                  THEN [s1 EXCEPT !.downsample_factor = get_downsample_factor(s1.model)]
                  ELSE s1, LAMBDA s2 :
             Then(ensemble_batch_predict(s2, x, num_batches), LAMBDA p :
                  [raised |-> p.raised, self |-> [s2 EXCEPT !.model = p.model],
                   ran_set |-> unset, set_done |-> unset, sized |-> TRUE,
                   samples |-> Len(x), mean |-> p.mean, var |-> p.var])))))

\* ------------------------------------------------------ predictor inputs

\* largest number of samples of an input batch
MaxLen == 3

\* largest num_batches
MaxBatches == 3

\* height and width of an image, length of a spectrum
SideLen == 2

\* largest number of ensemble_predict calls on one predictor
MaxCalls == 2

DataTypes == {"image", "spectra", "other"}

OutputTypes == {"image", "spectra", "other"}

Dims == {NoShape, <<SideLen>>}

ClassCounts == {NoClasses, 2}

VerboseValues == {0, 1, 2}

\* ensembles of one-weight snapshots <<key, w>>, in insertion order
PredictorEnsembles ==
    {<< <<0, 1>> >>,
     << <<0, 2>>, <<1, 2>> >>,
     << <<1, 3>>, <<0, 1>> >>,
     << <<0, 1>>, <<1, 2>>, <<2, 4>> >>}

ImageShapes == {<<SideLen, SideLen>>} \cup {<<n, SideLen, SideLen>> : n \in 1..MaxLen}

SpectraShapes == {<<SideLen>>} \cup {<<n, SideLen>> : n \in 1..MaxLen}

\* the raw inputs tried for a predictor of the given data_type
DataShapes(data_type) ==
    IF data_type = "image" THEN ImageShapes
    ELSE IF data_type = "spectra" THEN SpectraShapes
    ELSE ImageShapes \cup SpectraShapes

Batch(n) == [j \in 1..n |-> j]

CtorArgs(output_types, dims, shapes, verboses, cudas, ensembles) ==
    [data_type : DataTypes, output_type : output_types, nb_classes : ClassCounts,
     in_dim : dims, out_dim : dims, output_shape : shapes, verbose : verboses,
     use_gpu : {TRUE}, cuda_is_available : cudas, device : {None},
     skeleton : {0}, ensemble : ensembles]

\* the configurations the constructor is documented to accept
Admitted(a) ==
    /\ a.output_type \in {"image", "spectra"}
    /\ CrossModal(a.data_type, a.output_type) => (a.in_dim # NoShape /\ a.out_dim # NoShape)

\* predictors whose attributes are those lines 33-50 assign for an admitted
\* configuration: the objects the methods are written for (__init__ as it
\* stands raises on line 29 before it assigns them, see Construct)
Predictors(shapes, verboses, ensembles) ==
    {Attributes(a) :
        a \in {b \in CtorArgs({"image", "spectra"}, Dims, shapes, verboses, {FALSE}, ensembles) :
                  Admitted(b) /\ (b.in_dim = NoShape <=> b.out_dim = NoShape)}}

\* ----------------------------------------------------------- construction

InitNew ==
    /\ heap = <<>>
    /\ ensemble = <<>>
    /\ coord_class_dict = None
    /\ self = None
    /\ ret = NoCall

Construct ==
    /\ ret.op = "none"
    /\ \E a \in CtorArgs(OutputTypes, Dims, {NoShape, <<1, SideLen>>}, VerboseValues,
                         BOOLEAN, {<< <<0, 1>> >>}) :
          LET r == __init__(a)
          IN  /\ ret' = [op |-> "__init__", args |-> a, raised |-> r.raised]
              /\ self' = IF r.raised = "none" THEN r.self ELSE None
    /\ UNCHANGED <<heap, ensemble, coord_class_dict>>

NextInit == Construct

SpecInit == InitNew /\ [][NextInit]_vars

\* C3: construction fails with an InvalidConfiguration error (a TypeError)
\* exactly when output_type is outside {"image", "spectra"} or the pair is
\* cross-modal and in_dim or out_dim is missing; in every other configuration
\* it succeeds and the predictor holds the given skeleton and ensemble, no
\* downsample factor, and output_shape as supplied.
C3_ConstructionValidates ==
    (ret.op = "__init__") =>
        LET a == ret.args
        IN  /\ (ret.raised # "none") <=> ~Admitted(a)
            /\ (ret.raised # "none") => ret.raised = "TypeError"
            /\ Admitted(a) =>
                  /\ self.model = a.skeleton
                  /\ self.ensemble = a.ensemble
                  /\ self.downsample_factor = None
                  /\ self.output_shape = a.output_shape

\* ------------------------------------------------------ calls of one method

InitMethods ==
    /\ heap = <<>>
    /\ ensemble = <<>>
    /\ coord_class_dict = None
    /\ self \in Predictors({NoShape} \cup {<<n, SideLen>> : n \in 1..MaxLen},
                           VerboseValues, PredictorEnsembles)
    /\ ret = NoCall

SetOutputShape ==
    /\ ret.op = "none"
    /\ \E shape \in DataShapes(self.data_type) :
          LET r == _set_output_shape(self, [shape |-> shape])
          IN  /\ self' = IF r.raised = "none"
                         THEN [self EXCEPT !.output_shape = r.output_shape]
                         ELSE self
              /\ ret' = [op |-> "_set_output_shape", before |-> self,
                         data |-> [shape |-> shape], raised |-> r.raised]
    /\ UNCHANGED <<heap, ensemble, coord_class_dict>>

EnsembleForward ==
    /\ ret.op = "none"
    /\ \E n \in 1..MaxLen, rows \in 1..MaxLen :
          \E out_shape \in {Tuple(<<rows, SideLen>>)} :
          \E r \in {ensemble_forward_(self, Batch(n), out_shape)} :
              /\ self' = [self EXCEPT !.model = r.model]
              /\ ret' = [op |-> "ensemble_forward_", before |-> self, data |-> Batch(n),
                         out_shape |-> out_shape, raised |-> r.raised, result |-> r]
    /\ UNCHANGED <<heap, ensemble, coord_class_dict>>

\* called, as ensemble_predict calls it, with output_shape set
EnsembleBatchPredict ==
    /\ ret.op = "none"
    /\ ~Falsy(self.output_shape)
    /\ \E n \in 1..MaxLen, num_batches \in 1..MaxBatches :
          \E r \in {ensemble_batch_predict(self, Batch(n), num_batches)} :
              /\ self' = [self EXCEPT !.model = r.model]
              /\ ret' = [op |-> "ensemble_batch_predict", before |-> self,
                         data |-> Batch(n), num_batches |-> num_batches,
                         raised |-> r.raised, result |-> r]
    /\ UNCHANGED <<heap, ensemble, coord_class_dict>>

Next == SetOutputShape \/ EnsembleForward \/ EnsembleBatchPredict

Spec == InitMethods /\ [][Next]_vars

\* ------------------------------------------------- claims C1, C4, C5, C10

RECURSIVE Flatten(_, _)
Flatten(chunks, k) == IF k = 0 THEN <<>> ELSE Flatten(chunks, k - 1) \o chunks[k]

WrittenOnce(writes, n) ==
    \A j \in 1..n : Cardinality({k \in 1..Len(writes) : j \in writes[k]}) = 1

\* C1: for every input length L >= 1 and num_batches >= 1, on a predictor
\* whose arrays are sized to the input, ensemble_batch_predict returns
\* normally, the chunks passed to ensemble_forward_ are contiguous, in index
\* order and cover samples 0..L-1 exactly once, and every index of the mean
\* and of the variance array is written exactly once.
C1_EverySampleOnce ==
    (/\ ret.op = "ensemble_batch_predict"
     /\ ret.before.everbose = "True"
     /\ ret.before.output_shape[1] = Len(ret.data)) =>
        /\ ret.raised = "none"
        /\ Flatten(ret.result.chunks, Len(ret.result.chunks)) = ret.data
        /\ \A k \in 1..Len(ret.result.chunks) : Len(ret.result.chunks[k]) > 0
        /\ WrittenOnce(ret.result.wmean, Len(ret.data))
        /\ WrittenOnce(ret.result.wvar, Len(ret.data))

\* C4: _set_output_shape sets output_shape per the decision table: the input
\* shape, with (nb_classes,) appended when set, for image->image;
\* (L, *out_dim) with (nb_classes,) appended when set for spectra->image;
\* (L, *out_dim) for image->spectra; the input shape for spectra->spectra;
\* any other combination fails with a TypeError and leaves output_shape as
\* it was.
C4_OutputShapeTable ==
    (ret.op = "_set_output_shape") =>
        LET s == ret.before
            shape == ret.data.shape
            classes == IF s.nb_classes # NoClasses THEN <<s.nb_classes>> ELSE <<>>
            io == <<s.data_type, s.output_type>>
        IN  IF io = <<"image", "image">>
            THEN ret.raised = "none" /\ self.output_shape = shape \o classes
            ELSE IF io = <<"spectra", "image">>
            THEN ret.raised = "none"
                 /\ self.output_shape = <<shape[1]>> \o s.out_dim \o classes
            ELSE IF io = <<"image", "spectra">>
            THEN ret.raised = "none" /\ self.output_shape = <<shape[1]>> \o s.out_dim
            ELSE IF io = <<"spectra", "spectra">>
            THEN ret.raised = "none" /\ self.output_shape = shape
            ELSE ret.raised = "TypeError" /\ self.output_shape = s.output_shape

RECURSIVE IntSum(_, _)
IntSum(f, k) == IF k = 0 THEN 0 ELSE IntSum(f, k - 1) + f[k]

\* C5: on a batch whose output has out_shape, ensemble_forward_ loads the
\* snapshots in the order of the ensemble mapping, runs one forward pass per
\* snapshot, and returns the elementwise mean and the elementwise population
\* variance (divided by N) of the N outputs; with all snapshots equal the
\* variance is zero and the mean is the single-model output.
C5_MeanAndPopulationVariance ==
    (ret.op = "ensemble_forward_" /\ Len(ret.data) = ret.out_shape.dims[1]) =>
        LET members == DictValues(ret.before.ensemble)
            N == Len(members)
            r == ret.result
            out(j) == [i \in 1..N |-> members[i] * ret.data[j]]
            total(j) == IntSum(out(j), N)
            dev2(j) == [i \in 1..N |-> (N * out(j)[i] - total(j)) * (N * out(j)[i] - total(j))]
        IN  /\ ret.raised = "none"
            /\ r.loads = members
            /\ r.passes = [i \in 1..N |-> <<members[i], ret.data>>]
            /\ self.model = members[N]
            /\ Len(r.mean) = Len(ret.data) /\ Len(r.var) = Len(ret.data)
            /\ \A j \in 1..Len(ret.data) :
                  /\ r.mean[j].n * N = r.mean[j].d * total(j)
                  /\ r.var[j].n * N * N * N = r.var[j].d * IntSum(dev2(j), N)
            /\ (\A i \in 1..N : members[i] = members[1]) =>
                  \A j \in 1..Len(ret.data) :
                     r.var[j] = RInt(0) /\ r.mean[j] = forward_(members[1], ret.data[j])

\* three different snapshots on a batch of two: the variance is not zero
C5_Witness ==
    /\ ret.op = "ensemble_forward_"
    /\ Len(ret.before.ensemble) = 3
    /\ Len(ret.data) = 2
    /\ ret.raised = "none"
    /\ ret.result.mean = <<[n |-> 7, d |-> 3], [n |-> 14, d |-> 3]>>
    /\ ret.result.var[1] = [n |-> 14, d |-> 9]

\* C10: for every value of verbose given at construction,
\* ensemble_batch_predict on the same predictor and input succeeds or fails
\* identically and returns the same mean and variance arrays.
C10_VerboseDoesNotMatter ==
    (ret.op = "ensemble_batch_predict") =>
        \A v \in VerboseValues :
            LET other == ensemble_batch_predict(
                             [ret.before EXCEPT !.everbose = Everbose(v),
                                                !.verbose = Verbose(v)],
                             ret.data, ret.num_batches)
            IN  /\ other.raised = ret.raised
                /\ other.mean = ret.result.mean
                /\ other.var = ret.result.var

\* ------------------------------------------- sequences of ensemble_predict

InitPredict ==
    /\ heap = <<>>
    /\ ensemble = <<>>
    /\ coord_class_dict = None
    /\ self \in Predictors({NoShape, <<MaxLen, SideLen>>}, {0, 1},
                           {<< <<0, 1>>, <<1, 2>> >>})
    /\ ret = [op |-> "none", ncalls |-> 0, nset |-> 0, nset_done |-> 0,
              given |-> self.output_shape]

EnsemblePredict ==
    /\ ret.ncalls < MaxCalls
    /\ \E shape \in DataShapes(self.data_type), num_batches \in 1..MaxBatches :
          \E r \in {ensemble_predict(self, [shape |-> shape], num_batches)} :
              /\ self' = r.self
              /\ ret' = [op |-> "ensemble_predict", data |-> [shape |-> shape],
                         num_batches |-> num_batches, raised |-> r.raised,
                         ran_set |-> r.ran_set, sized |-> r.sized,
                         samples |-> r.samples, mean |-> r.mean, var |-> r.var,
                         ncalls |-> ret.ncalls + 1,
                         nset |-> ret.nset + (IF r.ran_set THEN 1 ELSE 0),
                         nset_done |-> ret.nset_done + (IF r.set_done THEN 1 ELSE 0),
                         given |-> ret.given]
    /\ UNCHANGED <<heap, ensemble, coord_class_dict>>

NextPredict == EnsemblePredict

SpecPredict == InitPredict /\ [][NextPredict]_vars

\* ----------------------------------------------------------- claims C2, C9

\* C2 as stated: _set_output_shape runs only on a call that finds
\* output_shape unset, so at most once and never when output_shape was
\* supplied at construction; once set, no later call changes output_shape.
C2_RunsAtMostOnce ==
    [][/\ ret'.ran_set => Falsy(self.output_shape)
       /\ ret'.nset <= 1
       /\ ~Falsy(ret.given) => ret'.nset = 0
       /\ ~Falsy(self.output_shape) => self'.output_shape = self.output_shape]_vars

\* C2, amended: _set_output_shape runs only on a call that finds output_shape
\* unset, it completes at most once, and it never runs when output_shape was
\* supplied at construction; once set, no later call changes output_shape.
C2_SetOnceThenKept ==
    [][/\ ret'.ran_set => Falsy(self.output_shape)
       /\ ret'.nset_done <= 1
       /\ ~Falsy(ret.given) => ret'.nset = 0
       /\ ~Falsy(self.output_shape) => self'.output_shape = self.output_shape]_vars

\* a second call, on an input of another length, that found the shape set
\* by the first call and kept it
C2_Witness ==
    /\ ret.op = "ensemble_predict"
    /\ ret.ncalls = 2
    /\ ret.given = NoShape
    /\ ret.nset_done = 1
    /\ ~ret.ran_set
    /\ Len(ret.data.shape) = Len(self.output_shape) - 1
    /\ self.output_shape[1] # ret.data.shape[1]

\* C9: on every ensemble_predict call of a predictor that was given no
\* output_shape, for batched and for single unbatched input, the output_shape
\* that sizes the mean and variance arrays has a leading dimension equal to
\* the number of samples of the preprocessed input.
C9_LeadingDimIsSampleCount ==
    (ret.op = "ensemble_predict" /\ ret.sized /\ Falsy(ret.given)) =>
        self.output_shape[1] = ret.samples

====
